---- MODULE Spec2Model ----
(***************************************************************************)
(* Model of custom_components/webuntis/config_flow.py: the setup flow      *)
(* (ConfigFlow.async_step_user with validate_input and test_timetable) and *)
(* the options flow (OptionsFlowHandler).                                  *)
(*                                                                         *)
(* Python strings that the code splits, strips or re-cases are sequences   *)
(* of one-character strings; option values that are only stored and        *)
(* compared are TLA+ strings.  Python dicts are functions whose DOMAIN is  *)
(* the set of keys present.                                                *)
(***************************************************************************)
EXTENDS Integers, Sequences, FiniteSets, TLC

VARIABLES
    entries,     \* the configured entries of the domain (hass.config_entries)
    pc,          \* position of the setup handler: "idle" or the call it awaits next
    flow,        \* the setup flow in hand: unique id and user_input
    calls,       \* external calls made for the submission in hand, with outcomes
    result,      \* FlowResult of the last setup submission
    options,     \* config_entry.options of the entry the options flow edits
    user_input,  \* the submission the last options step received
    processed,   \* the dict the last options step passed to save()
    optResult    \* FlowResult of the last options step

vars == <<entries, pc, flow, calls, result, options, user_input, processed, optResult>>

setupVars == <<entries, pc, flow, calls, result>>
optionVars == <<options, user_input, processed, optResult>>

----------------------------------------------------------------------------
(* Python str methods, on sequences of characters *)

LowerChar(c) == CASE c = "A" -> "a" [] c = "B" -> "b" [] c = "S" -> "s" [] OTHER -> c

UpperChar(c) == CASE c = "a" -> "A" [] c = "b" -> "B" [] c = "s" -> "S" [] OTHER -> c

\* str.lower()
Lower(s) == [i \in 1..Len(s) |-> LowerChar(s[i])]

\* str.replace(old, new) for one-character old and new
Replace(s, old, new) == [i \in 1..Len(s) |-> IF s[i] = old THEN new ELSE s[i]]

\* str.capitalize(): first character upper-cased, the rest lower-cased
Capitalize(s) == [i \in 1..Len(s) |-> IF i = 1 THEN UpperChar(s[i]) ELSE LowerChar(s[i])]

RECURSIVE Split(_, _)
\* str.split(sep) for a one-character sep: always at least one part
Split(s, sep) ==
    IF \A i \in 1..Len(s) : s[i] # sep
    THEN <<s>>
    ELSE LET i == CHOOSE j \in 1..Len(s) :
                      s[j] = sep /\ \A k \in 1..(j - 1) : s[k] # sep
         IN  <<SubSeq(s, 1, i - 1)>> \o Split(SubSeq(s, i + 1, Len(s)), sep)

RECURSIVE Strip(_)
\* str.strip(" ")
Strip(s) ==
    IF s = <<>> THEN s
    ELSE IF Head(s) = " " THEN Strip(Tail(s))
    ELSE IF s[Len(s)] = " " THEN Strip(SubSeq(s, 1, Len(s) - 1))
    ELSE s

RECURSIVE Join(_, _)
\* sep.join(parts)
Join(sep, parts) ==
    IF parts = <<>> THEN <<>>
    ELSE IF Len(parts) = 1 THEN parts[1]
    ELSE parts[1] \o sep \o Join(sep, Tail(parts))

\* a Python value that is a str or a list of str, tagged with its type
PyStr(s) == [type |-> "str", str |-> s, list |-> <<>>]
PyList(l) == [type |-> "list", str |-> <<>>, list |-> l]

----------------------------------------------------------------------------
(* Python dicts *)

EmptyDict == [key \in {} |-> ""]

\* d.update(e) on a copy of d
Update(d, e) ==
    [k \in (DOMAIN d) \cup (DOMAIN e) |-> IF k \in DOMAIN e THEN e[k] ELSE d[k]]

----------------------------------------------------------------------------
(* Exceptions: the class of each exception and the except-clause search *)

\* base class of each exception class the handlers can meet
Parent(c) ==
    CASE c = "BadCredentialsError" -> "RemoteError"
      [] c = "RemoteError" -> "Exception"
      [] c = "ConnectionError" -> "Exception"
      [] c = "ValueError" -> "Exception"
      [] c = "gaierror" -> "Exception"
      [] c = "KeyError" -> "Exception"
      [] c = "IndexError" -> "Exception"
      [] c \in {"CannotConnect", "InvalidAuth", "BadCredentials", "SchoolNotFound",
                "NameSplitError", "StudentNotFound", "TeacherNotFound",
                "ClassNotFound", "NoRightsForTimetable"} -> "HomeAssistantError"
      [] c = "HomeAssistantError" -> "Exception"
      [] OTHER -> "BaseException"

RECURSIVE IsInstance(_, _)
IsInstance(exc, cls) ==
    IF exc = cls THEN TRUE
    ELSE IF exc = "BaseException" THEN FALSE
    ELSE IsInstance(Parent(exc), cls)

RECURSIVE FirstMatch(_, _)
\* the handler of the first except clause that catches exc; "propagate" if none does
FirstMatch(exc, clauses) ==
    IF clauses = <<>> THEN "propagate"
    ELSE IF IsInstance(exc, clauses[1][1]) THEN clauses[1][2]
    ELSE FirstMatch(exc, Tail(clauses))

----------------------------------------------------------------------------
(* Setup flow: inputs and environment *)

\* what the form lets the user submit
Username == <<"u">>
School == <<"S">>
TimetableSources == {"student", "klasse", "teacher"}
SourceIds ==
    { <<"a", " ", "b">>, <<"A", " ", "b">>, <<"a", "-", "b">>, <<"a", ",", "b">>,
      <<"a", ",", " ", "b">>, <<"a">>, <<"a", " ", "b", " ", "c">> }
Servers == {"mese.webuntis.com", "https://mese.webuntis.com", "https://[mese"}

\* what the external calls can answer
ResolveOutcomes == {"ok", "gaierror"}
LoginOutcomes == {"ok", "BadCredentialsError", "ConnectionError", "RemoteError", "ValueError"}
PersonOutcomes == {"ok", "KeyError"}
KlassenOutcomes == {"ok", "missing", "RemoteError"}
SchoolyearsOutcomes == {"current", "past", "empty", "RemoteError"}
TimetableOutcomes == {"ok", "RemoteError"}

NoFlow ==
    [unique_id |-> <<>>, timetable_source |-> "none",
     timetable_source_id |-> PyStr(<<>>), submitted |-> <<>>]

NoResult == [type |-> "none", step_id |-> "user", errors |-> EmptyDict, raised |-> "notcalled"]

Call(name, outcome) == [call |-> name, outcome |-> outcome]

----------------------------------------------------------------------------
(* ConfigFlow.async_step_user *)

\* "{username}@{timetable_source_id}@{school}".format(**user_input).lower().replace(" ", "-")
UniqueId(username, source_id, school) ==
    Replace(Lower(username \o <<"@">> \o source_id \o <<"@">> \o school), " ", "-")

NeverAbort(unique_id, configured) == FALSE

\* self._abort_if_unique_id_configured()
AbortIfUniqueIdConfigured(unique_id, configured) ==
    \E e \in configured : e.unique_id = unique_id

\* urlparse(server).netloc after the scheme is prefixed; "ValueError" when urlparse raises
Netloc(server) ==
    CASE server = "mese.webuntis.com" -> "mese.webuntis.com"
      [] server = "https://mese.webuntis.com" -> "mese.webuntis.com"
      [] server = "https://[mese" -> "ValueError"

\* the except clauses of async_step_user, in order
StepUserClauses ==
    << <<"CannotConnect", "cannot_connect">>,
       <<"InvalidAuth", "invalid_auth">>,
       <<"BadCredentials", "bad_credentials">>,
       <<"SchoolNotFound", "school_not_found">>,
       <<"NameSplitError", "name_split_error">>,
       <<"StudentNotFound", "student_not_found">>,
       <<"TeacherNotFound", "teacher_not_found">>,
       <<"ClassNotFound", "class_not_found">>,
       <<"NoRightsForTimetable", "no_rights_for_timetable">>,
       <<"Exception", "unknown">> >>

UserErrorCodeNoCatchAll(exc) ==
    FirstMatch(exc, SubSeq(StepUserClauses, 1, Len(StepUserClauses) - 1))

UserErrorCode(exc) == FirstMatch(exc, StepUserClauses)

\* the rest of async_step_user once validate_input has raised exc
ValidationRaised(exc) ==
    LET code == UserErrorCode(exc)
        tsid == flow.timetable_source_id
        shown == IF tsid.type = "list" THEN PyStr(Join(<<",", " ">>, tsid.list)) ELSE tsid
    IN  /\ pc' = "idle"
        /\ entries' = entries
        /\ flow' = [flow EXCEPT !.timetable_source_id = shown]
        /\ result' = IF code = "propagate"
                     THEN [type |-> "error", step_id |-> "user",
                           errors |-> EmptyDict, raised |-> exc]
                     ELSE [type |-> "form", step_id |-> "user",
                           errors |-> [base |-> code], raised |-> exc]

\* the rest of async_step_user once validate_input has returned
ValidationReturned ==
    /\ pc' = "idle"
    /\ entries' = entries \cup
           {[unique_id |-> flow.unique_id,
             timetable_source |-> flow.timetable_source,
             timetable_source_id |-> flow.timetable_source_id]}
    /\ flow' = flow
    /\ result' = [type |-> "create_entry", step_id |-> "user",
                  errors |-> EmptyDict, raised |-> "none"]

\* async_step_user(None)
ShowUserForm ==
    /\ pc = "idle"
    /\ result' = [type |-> "form", step_id |-> "user",
                  errors |-> EmptyDict, raised |-> "notcalled"]
    /\ flow' = NoFlow
    /\ calls' = <<>>
    /\ UNCHANGED <<entries, pc, optionVars>>

\* the `split` the loop over [",", " "] of validate_input ends with
SplitName(source_id) ==
    LET byComma == Split(source_id, ",")
    IN  IF Len(byComma) = 2 THEN byComma ELSE Split(source_id, " ")

\* async_step_user(user_input) up to the first external call of validate_input
Submit(server, source, source_id) ==
    LET uid == UniqueId(Username, source_id, School)
        split == SplitName(source_id)
        names == [i \in 1..Len(split) |-> Capitalize(Strip(split[i]))]
        started == [unique_id |-> uid, timetable_source |-> source,
                    timetable_source_id |-> PyStr(source_id), submitted |-> source_id]
    IN  /\ pc = "idle"
        /\ calls' = <<>>
        /\ UNCHANGED optionVars
        /\ IF AbortIfUniqueIdConfigured(uid, entries)
           THEN /\ result' = [type |-> "abort", step_id |-> "user",
                              errors |-> EmptyDict, raised |-> "notcalled"]
                /\ flow' = started
                /\ UNCHANGED <<entries, pc>>
           ELSE IF Netloc(server) = "ValueError"
           THEN /\ result' = [type |-> "error", step_id |-> "user",
                              errors |-> EmptyDict, raised |-> "notcalled"]
                /\ flow' = started
                /\ UNCHANGED <<entries, pc>>
           ELSE IF source \in {"student", "teacher"}
           THEN IF Len(split) = 2
                THEN /\ flow' = [started EXCEPT !.timetable_source_id = PyList(names)]
                     /\ pc' = "resolve"
                     /\ result' = NoResult
                     /\ UNCHANGED entries
                ELSE /\ flow' = started
                     /\ pc' = "idle"
                     /\ entries' = entries
                     /\ result' = [type |-> "form", step_id |-> "user",
                                   errors |-> [base |-> UserErrorCode("NameSplitError")],
                                   raised |-> "NameSplitError"]
           ELSE /\ flow' = started
                /\ pc' = "resolve"
                /\ result' = NoResult
                /\ UNCHANGED entries

----------------------------------------------------------------------------
(* validate_input, from its first external call on *)

\* socket.gethostbyname(user_input["server"])
Resolve(outcome) ==
    /\ pc = "resolve"
    /\ calls' = Append(calls, Call("gethostbyname", outcome))
    /\ UNCHANGED optionVars
    /\ IF outcome = "ok"
       THEN /\ pc' = "login"
            /\ UNCHANGED <<entries, flow, result>>
       ELSE ValidationRaised(FirstMatch(outcome, << <<"Exception", "CannotConnect">> >>))

\* the except clauses around webuntis.Session(...) and session.login, in order
LoginClauses ==
    << <<"BadCredentialsError", "BadCredentials">>,
       <<"ConnectionError", "CannotConnect">>,
       <<"RemoteError", "SchoolNotFound">>,
       <<"Exception", "InvalidAuth">> >>

\* hass.async_add_executor_job(session.login)
Login(outcome) ==
    /\ pc = "login"
    /\ calls' = Append(calls, Call("login", outcome))
    /\ UNCHANGED optionVars
    /\ IF outcome = "ok"
       THEN /\ pc' = "lookup"
            /\ UNCHANGED <<entries, flow, result>>
       ELSE ValidationRaised(FirstMatch(outcome, LoginClauses))

\* session.get_student(surname, forename) inside try ... except Exception
LookupStudent(outcome) ==
    /\ pc = "lookup"
    /\ flow.timetable_source = "student"
    /\ calls' = Append(calls, Call("get_student", outcome))
    /\ UNCHANGED optionVars
    /\ IF outcome = "ok"
       THEN /\ pc' = "timetable"
            /\ UNCHANGED <<entries, flow, result>>
       ELSE ValidationRaised(FirstMatch(outcome, << <<"Exception", "StudentNotFound">> >>))

\* session.klassen() outside the try, then klassen.filter(name=...)[0] inside it:
\* "missing" is a fetched list without the class (IndexError), any other failure
\* is the exception session.klassen itself raised
LookupKlasse(outcome) ==
    /\ pc = "lookup"
    /\ flow.timetable_source = "klasse"
    /\ calls' = Append(calls, Call("klassen", outcome))
    /\ UNCHANGED optionVars
    /\ IF outcome = "ok"
       THEN /\ pc' = "timetable"
            /\ UNCHANGED <<entries, flow, result>>
       ELSE IF outcome = "missing"
       THEN ValidationRaised(FirstMatch("IndexError", << <<"Exception", "ClassNotFound">> >>))
       ELSE ValidationRaised(outcome)

\* session.get_teacher(surname, forename) inside try ... except Exception
LookupTeacher(outcome) ==
    /\ pc = "lookup"
    /\ flow.timetable_source = "teacher"
    /\ calls' = Append(calls, Call("get_teacher", outcome))
    /\ UNCHANGED optionVars
    /\ IF outcome = "ok"
       THEN /\ pc' = "timetable"
            /\ UNCHANGED <<entries, flow, result>>
       ELSE ValidationRaised(FirstMatch(outcome, << <<"Exception", "TeacherNotFound">> >>))

\* the calls test_timetable makes: session.schoolyears(), then, unless that raised
\* or school_years[-1] of an empty list did, session.timetable(...)
TestTimetableCalls(schoolyears, timetable) ==
    IF schoolyears \in {"current", "past"}
    THEN <<Call("schoolyears", schoolyears), Call("timetable", timetable)>>
    ELSE <<Call("schoolyears", schoolyears)>>

\* hass.async_add_executor_job(test_timetable, ...) inside try ... except Exception
Timetable(schoolyears, timetable) ==
    LET made == TestTimetableCalls(schoolyears, timetable)
        last == made[Len(made)]
        exc == IF last.call = "schoolyears"
               THEN (IF schoolyears = "empty" THEN "IndexError" ELSE schoolyears)
               ELSE timetable
    IN  /\ pc = "timetable"
        /\ calls' = calls \o made
        /\ UNCHANGED optionVars
        /\ IF last.call = "timetable" /\ timetable = "ok"
           THEN ValidationReturned
           ELSE ValidationRaised(FirstMatch(exc, << <<"Exception", "NoRightsForTimetable">> >>))

----------------------------------------------------------------------------
(* Options flow: inputs and environment *)

\* const.NOTIFY_OPTIONS, in declaration order
NOTIFY_OPTIONS == <<"homework", "cancelled">>

NotifyOptionKeys == {NOTIFY_OPTIONS[i] : i \in 1..Len(NOTIFY_OPTIONS)}

\* const.DEFAULT_OPTIONS: the options a new entry is created with
DEFAULT_OPTIONS ==
    [filter_mode |-> "None", filter_subjects |-> <<>>, filter_description |-> <<>>,
     extended_timetable |-> FALSE,
     calendar_long_name |-> TRUE, calendar_show_cancelled_lessons |-> FALSE,
     calendar_show_room_change |-> FALSE, calendar_description |-> "JSON",
     calendar_room |-> "Room long name",
     keep_loged_in |-> FALSE, generate_json |-> FALSE, exclude_data |-> <<>>,
     notify_entity_id |-> "", notify_target |-> {}, notify_data |-> {},
     notify_options |-> <<>>]

\* the services registered with hass
RegisteredServices == {"notify.phone"}

\* utils.is_service(hass, entry)
is_service(entry) == entry \in RegisteredServices

\* what the forms let the user submit
FilterModes == {"None", "Blacklist", "Whitelist"}
SubjectLists == {<<>>, <<"Math">>}
FilterDescriptions == {<<"x">>, <<",">>, <<" ">>, <<"x", ",", " ", "y">>}
CalendarDescriptions == {"None", "JSON", "Lesson Info"}
CalendarRooms == {"Room short name"}
ExcludeLists == {<<"teachers">>}
NotifyEntityIds == {"notify.phone", "notify.ghost"}

\* what utils.async_notify can do
NotifyOutcomes == {"sent", "raised"}

FilterInputs ==
    LET required == [filter_mode : FilterModes, filter_subjects : SubjectLists]
    IN  required \cup
        {Update(r, [filter_description |-> d]) : r \in required, d \in FilterDescriptions}

CalendarInputs ==
    [calendar_long_name : BOOLEAN, calendar_show_cancelled_lessons : {FALSE},
     calendar_show_room_change : {FALSE}, calendar_description : CalendarDescriptions,
     calendar_room : CalendarRooms]

BackendInputs ==
    [keep_loged_in : BOOLEAN, generate_json : {FALSE},
     exclude_data : ExcludeLists, extended_timetable : BOOLEAN]

NotifyInputs ==
    LET flags == [NotifyOptionKeys -> BOOLEAN]
        ids == {EmptyDict} \cup {[notify_entity_id |-> e] : e \in NotifyEntityIds}
    IN  {Update(f, i) : f \in flags, i \in ids}

OptionSteps == {"init", "filter", "calendar", "backend", "notify", "test"}

OptionResult(type, step_id, errors) == [type |-> type, step_id |-> step_id, errors |-> errors]

----------------------------------------------------------------------------
(* OptionsFlowHandler *)

save_replace(old, new) == new

\* save(): dict(self.config_entry.options) updated with user_input
save(old, new) == Update(old, new)

\* the entry's options after async_create_entry(title="", data=options)
Saved(step_id, input, submission) ==
    /\ options' = save(options, submission)
    /\ user_input' = input
    /\ processed' = submission
    /\ optResult' = OptionResult("create_entry", step_id, EmptyDict)
    /\ UNCHANGED setupVars

\* async_show_form(step_id=..., errors=errors) after a submission
Refused(step_id, input, errors) ==
    /\ options' = options
    /\ user_input' = input
    /\ processed' = EmptyDict
    /\ optResult' = OptionResult("form", step_id, errors)
    /\ UNCHANGED setupVars

\* any step called without user_input: the menu (init) or the step's form
ShowOptionsForm(step_id) ==
    /\ options' = options
    /\ user_input' = EmptyDict
    /\ processed' = EmptyDict
    /\ optResult' = OptionResult(IF step_id = "init" THEN "menu" ELSE "form", step_id, EmptyDict)
    /\ UNCHANGED setupVars

\* [s.strip() for s in description.split(",") if s != ""]
DescriptionList(description) ==
    LET kept == SelectSeq(Split(description, ","), LAMBDA part : part # <<>>)
    IN  [i \in 1..Len(kept) |-> Strip(kept[i])]

FilterProcessKeepMode(input) ==
    LET u1 == IF "filter_description" \notin DOMAIN input
              THEN Update(input, [filter_description |-> <<>>])
              ELSE input
    IN  IF u1.filter_description # <<>>
        THEN Update(u1, [extended_timetable |-> TRUE,
                         filter_description |-> DescriptionList(u1.filter_description)])
        ELSE u1

\* what async_step_filter makes of user_input before it saves
FilterProcess(input) ==
    LET u1 == IF "filter_description" \notin DOMAIN input
              THEN Update(input, [filter_description |-> <<>>])
              ELSE input
        u2 == IF u1.filter_mode # "" /\ u1.filter_subjects = <<>>
              THEN [u1 EXCEPT !.filter_mode = "None"]
              ELSE u1
    IN  IF u2.filter_description # <<>>
        THEN Update(u2, [extended_timetable |-> TRUE,
                         filter_description |-> DescriptionList(u2.filter_description)])
        ELSE u2

async_step_filter(input) ==
    /\ input \in FilterInputs
    /\ Saved("filter", input, FilterProcess(input))

CalendarProcessAsIs(input) == input

\* what async_step_calendar makes of user_input before it saves
CalendarProcess(input) ==
    IF input.calendar_description = "Lesson Info"
    THEN Update(input, [extended_timetable |-> TRUE])
    ELSE input

async_step_calendar(input) ==
    /\ input \in CalendarInputs
    /\ Saved("calendar", input, CalendarProcess(input))

BackendRefusesForFilterOnly(input, stored) ==
    ~input.extended_timetable /\ stored.filter_description # <<>>

\* the two conditions under which async_step_backend sets errors instead of saving
BackendRefuses(input, stored) ==
    \/ ~input.extended_timetable /\ stored.filter_description # <<>>
    \/ input.extended_timetable = FALSE /\ stored.calendar_description = "Lesson Info"

async_step_backend(input) ==
    IF BackendRefuses(input, options)
    THEN Refused("backend", input, [base |-> "extended_timetable"])
    ELSE Saved("backend", input, input)

\* what async_step_notify makes of user_input before it saves
NotifyProcess(input) ==
    LET notify_options == SelectSeq(NOTIFY_OPTIONS,
                                    LAMBDA key : key \in DOMAIN input /\ input[key])
        u1 == [key \in (DOMAIN input) \ NotifyOptionKeys |-> input[key]]
        u2 == Update(u1, [notify_options |-> notify_options])
        u3 == IF "notify_entity_id" \in DOMAIN u2 THEN u2
              ELSE Update(u2, [notify_entity_id |-> ""])
        u4 == IF "notify_target" \in DOMAIN u3 THEN u3 ELSE Update(u3, [notify_target |-> {}])
    IN  IF "notify_data" \in DOMAIN u4 THEN u4 ELSE Update(u4, [notify_data |-> {}])

\* the `errors` async_step_notify holds when it reaches `return await self.save(user_input)`
NotifyErrors(input) ==
    IF "notify_entity_id" \in DOMAIN input /\ ~is_service(input.notify_entity_id)
    THEN [base |-> "unknown_service"]
    ELSE EmptyDict

\* errors is assigned and never read: every submission ends in save()
async_step_notify(input) ==
    LET errors == NotifyErrors(input)
    IN  /\ input \in NotifyInputs
        /\ Saved("notify", input, NotifyProcess(input))

\* async_step_test({"tests": "notify"}): async_notify, then save({})
async_step_test(outcome) ==
    IF "notify_data" \in DOMAIN options /\ outcome = "sent"
    THEN Saved("test", [tests |-> "notify"], EmptyDict)
    ELSE /\ options' = options
         /\ user_input' = [tests |-> "notify"]
         /\ processed' = EmptyDict
         /\ optResult' = OptionResult("error", "test", EmptyDict)
         /\ UNCHANGED setupVars

----------------------------------------------------------------------------
(* Specifications *)

Init ==
    /\ entries = {}
    /\ pc = "idle"
    /\ flow = NoFlow
    /\ calls = <<>>
    /\ result = NoResult
    /\ options = DEFAULT_OPTIONS
    /\ user_input = EmptyDict
    /\ processed = EmptyDict
    /\ optResult = OptionResult("menu", "init", EmptyDict)

\* the setup flow
Next ==
    \/ ShowUserForm
    \/ \E server \in Servers, source \in TimetableSources, source_id \in SourceIds :
           Submit(server, source, source_id)
    \/ \E outcome \in ResolveOutcomes : Resolve(outcome)
    \/ \E outcome \in LoginOutcomes : Login(outcome)
    \/ \E outcome \in PersonOutcomes : LookupStudent(outcome)
    \/ \E outcome \in KlassenOutcomes : LookupKlasse(outcome)
    \/ \E outcome \in PersonOutcomes : LookupTeacher(outcome)
    \/ \E schoolyears \in SchoolyearsOutcomes, timetable \in TimetableOutcomes :
           Timetable(schoolyears, timetable)

Spec == Init /\ [][Next]_vars

\* the options flow of one configured entry
NextOptions ==
    \/ \E step_id \in OptionSteps : ShowOptionsForm(step_id)
    \/ \E input \in FilterInputs : async_step_filter(input)
    \/ \E input \in CalendarInputs : async_step_calendar(input)
    \/ \E input \in BackendInputs : async_step_backend(input)
    \/ \E input \in NotifyInputs : async_step_notify(input)
    \/ \E outcome \in NotifyOutcomes : async_step_test(outcome)

\* the options flow runs on an entry the setup flow has created
InitOptions ==
    LET source_id == <<"a">>
        unique_id == UniqueId(Username, source_id, School)
    IN  /\ entries = {[unique_id |-> unique_id, timetable_source |-> "klasse",
                       timetable_source_id |-> PyStr(source_id)]}
        /\ pc = "idle"
        /\ flow = [unique_id |-> unique_id, timetable_source |-> "klasse",
                   timetable_source_id |-> PyStr(source_id), submitted |-> source_id]
        /\ calls = <<Call("gethostbyname", "ok"), Call("login", "ok"), Call("klassen", "ok"),
                     Call("schoolyears", "current"), Call("timetable", "ok")>>
        /\ result = [type |-> "create_entry", step_id |-> "user",
                     errors |-> EmptyDict, raised |-> "none"]
        /\ options = DEFAULT_OPTIONS
        /\ user_input = EmptyDict
        /\ processed = EmptyDict
        /\ optResult = OptionResult("menu", "init", EmptyDict)

SpecOptions == InitOptions /\ [][NextOptions]_vars

----------------------------------------------------------------------------
(* Properties of the setup flow, checked under Spec *)

HasEntry(unique_id) == \E e \in entries : e.unique_id = unique_id

\* a submission with a unique id that was not configured has been handled to its end
SubmissionHandled ==
    pc = "idle" /\ flow.timetable_source # "none" /\ result.type # "abort"

\* C1: a submission whose unique id is not yet configured creates an entry if and
\* only if validate_input returned; when validate_input raised, no entry exists for
\* it and the "user" form is shown with exactly one error code, under "base".
C1_EntryIffValidated ==
    /\ pc # "idle" => ~HasEntry(flow.unique_id)
    /\ SubmissionHandled =>
         /\ (result.raised = "none") <=> HasEntry(flow.unique_id)
         /\ (result.raised = "none") <=> (result.type = "create_entry")
         /\ result.raised \notin {"none", "notcalled"} =>
              /\ result.type = "form"
              /\ result.step_id = "user"
              /\ DOMAIN result.errors = {"base"}
              /\ \E i \in 1..Len(StepUserClauses) : result.errors.base = StepUserClauses[i][2]

C1_Witness ==
    /\ SubmissionHandled
    /\ result.type = "form"
    /\ result.raised = "NoRightsForTimetable"
    /\ entries # {}

Count(s, c) == Cardinality({i \in 1..Len(s) : s[i] = c})

\* a name that splits into exactly two parts at its comma or at its space
ExactlyTwoParts(name) == Count(name, ",") = 1 \/ Count(name, " ") = 1

\* the error code the claim assigns to a failure of an external call
CodeOfFailedCall(c) ==
    CASE c.call = "gethostbyname" -> "cannot_connect"
      [] c.call = "login" /\ c.outcome = "BadCredentialsError" -> "bad_credentials"
      [] c.call = "login" /\ c.outcome = "ConnectionError" -> "cannot_connect"
      [] c.call = "login" /\ c.outcome = "RemoteError" -> "school_not_found"
      [] c.call = "login" -> "invalid_auth"
      [] c.call = "get_student" -> "student_not_found"
      [] c.call = "get_teacher" -> "teacher_not_found"
      [] c.call = "klassen" -> "class_not_found"
      [] c.call \in {"schoolyears", "timetable"} -> "no_rights_for_timetable"

ShowsError(code) ==
    /\ result.type = "form"
    /\ DOMAIN result.errors = {"base"}
    /\ result.errors.base = code

\* C2: every validation failure is shown under the error code of its kind: a
\* student or teacher name that is not two parts gives name_split_error, and a
\* failed call gives the code of that call (a failed class lookup class_not_found).
C2_ErrorCodeOfKind ==
    /\ (SubmissionHandled /\ result.raised # "notcalled"
          /\ flow.timetable_source \in {"student", "teacher"}
          /\ ~ExactlyTwoParts(flow.submitted)) => ShowsError("name_split_error")
    /\ (SubmissionHandled /\ result.raised \notin {"none", "notcalled"} /\ calls # <<>>)
          => ShowsError(CodeOfFailedCall(calls[Len(calls)]))

\* the external calls of a submission, in the order of the validation stages
StageCalls(source) ==
    <<"gethostbyname", "login",
      CASE source = "student" -> "get_student"
        [] source = "klasse" -> "klassen"
        [] source = "teacher" -> "get_teacher"
        [] OTHER -> "none",
      "schoolyears", "timetable">>

CallFailed(c) == c.outcome \notin {"ok", "current", "past"}

\* C6: the calls made are a prefix of the stage sequence, none follows a failed
\* call, a malformed name stops the submission before any call, and the error
\* shown is the code of the stage that failed first.
C6_StagesInOrder ==
    /\ Len(calls) <= 5
    /\ \A i \in 1..Len(calls) : calls[i].call = StageCalls(flow.timetable_source)[i]
    /\ \A i \in 1..(Len(calls) - 1) : ~CallFailed(calls[i])
    /\ (SubmissionHandled /\ result.raised = "NameSplitError") => calls = <<>>
    /\ (SubmissionHandled /\ result.raised \notin {"none", "notcalled"} /\ calls # <<>>) =>
         /\ CallFailed(calls[Len(calls)])
         /\ ShowsError(CodeOfFailedCall(calls[Len(calls)]))
    /\ (SubmissionHandled /\ result.raised = "none") =>
         Len(calls) = 5 /\ ~CallFailed(calls[5])

NoUpperOrSpace(s) == \A i \in 1..Len(s) : s[i] \notin {" ", "A", "B", "S"}

\* C3: a submission whose unique id is already configured is aborted before any
\* call is made and creates nothing; validation runs only for a unique id that is
\* not configured; unique ids are lower-case without spaces; and no two entries
\* share a unique id.
C3_UniqueIdAbort ==
    /\ \A e1, e2 \in entries : e1.unique_id = e2.unique_id => e1 = e2
    /\ \A e \in entries : NoUpperOrSpace(e.unique_id)
    /\ result.type = "abort" => calls = <<>> /\ pc = "idle" /\ HasEntry(flow.unique_id)
    /\ pc # "idle" => ~HasEntry(flow.unique_id)
    /\ (SubmissionHandled /\ result.type # "create_entry") => ~HasEntry(flow.unique_id)
    /\ flow.timetable_source # "none" =>
         flow.unique_id = Replace(Lower(Username \o <<"@">> \o flow.submitted \o <<"@">> \o School),
                                  " ", "-")

C3_Witness ==
    /\ result.type = "abort"
    /\ flow.submitted = <<"a", "-", "b">>
    /\ \E e \in entries :
           /\ e.unique_id = flow.unique_id
           /\ e.timetable_source_id = PyList(<< <<"A">>, <<"B">> >>)

----------------------------------------------------------------------------
(* Properties of the options flow, checked under SpecOptions *)

\* C4: a step that saves stores the previous options overridden by the keys of the
\* processed submission, a step that does not save stores nothing, no key is ever
\* removed, and the test step leaves the options as they were.
C4_SaveMerges ==
    [][ /\ DOMAIN options \subseteq DOMAIN options'
        /\ optResult'.type = "create_entry" =>
             /\ DOMAIN options' = (DOMAIN options) \cup (DOMAIN processed')
             /\ \A key \in DOMAIN processed' : options'[key] = processed'[key]
             /\ \A key \in (DOMAIN options) \ (DOMAIN processed') : options'[key] = options[key]
        /\ optResult'.type # "create_entry" => options' = options
        /\ optResult'.step_id = "test" => options' = options ]_vars

C4_Witness ==
    /\ optResult.type = "create_entry"
    /\ optResult.step_id = "filter"
    /\ options.filter_mode = "Whitelist"
    /\ options.calendar_description = "Lesson Info"
    /\ options.notify_entity_id = "notify.phone"
    /\ options.keep_loged_in

\* C5: a notify submission naming a service that is not registered shows the notify
\* form again with unknown_service and leaves the stored options unchanged.
C5_UnknownServiceNotSaved ==
    [][ (/\ optResult'.step_id = "notify"
         /\ "notify_entity_id" \in DOMAIN user_input'
         /\ ~is_service(user_input'.notify_entity_id))
        => /\ optResult'.type = "form"
           /\ DOMAIN optResult'.errors = {"base"}
           /\ optResult'.errors.base = "unknown_service"
           /\ options' = options ]_vars

BackendKeys == {"keep_loged_in", "generate_json", "exclude_data", "extended_timetable"}

\* C7: a backend submission that switches extended_timetable off while the stored
\* filter_description is non-empty or the stored calendar_description is
\* "Lesson Info" shows the backend form with extended_timetable and saves nothing;
\* every other backend submission is saved.
C7_BackendRefusal ==
    [][ (optResult'.step_id = "backend" /\ DOMAIN user_input' # {}) =>
          IF /\ ~user_input'.extended_timetable
             /\ \/ options.filter_description # <<>>
                \/ options.calendar_description = "Lesson Info"
          THEN /\ optResult'.type = "form"
               /\ DOMAIN optResult'.errors = {"base"}
               /\ optResult'.errors.base = "extended_timetable"
               /\ options' = options
          ELSE /\ optResult'.type = "create_entry"
               /\ \A key \in BackendKeys : options'[key] = user_input'[key] ]_vars

C7_Witness ==
    /\ optResult.step_id = "backend"
    /\ optResult.type = "form"
    /\ DOMAIN optResult.errors = {"base"}
    /\ options.calendar_description = "Lesson Info"
    /\ options.filter_description = <<>>
    /\ options.extended_timetable

\* C8: stored options with a non-empty filter_description or with
\* calendar_description "Lesson Info" have extended_timetable switched on.
C8_ExtendedTimetableKept ==
    (options.filter_description # <<>> \/ options.calendar_description = "Lesson Info")
        => options.extended_timetable = TRUE

C8_Witness ==
    /\ optResult.step_id = "calendar"
    /\ optResult.type = "create_entry"
    /\ "extended_timetable" \notin DOMAIN user_input
    /\ options.calendar_description = "Lesson Info"
    /\ options.filter_description = <<>>
    /\ options.extended_timetable

\* C9: the stored filter_mode is "None", "Blacklist" or "Whitelist"; a stored
\* "Blacklist" or "Whitelist" comes with stored subjects; and a filter submission
\* without subjects stores "None" whatever mode it carried.
C9_NoFilterWithoutSubjects ==
    /\ options.filter_mode \in {"None", "Blacklist", "Whitelist"}
    /\ options.filter_mode \in {"Blacklist", "Whitelist"} => options.filter_subjects # <<>>
    /\ (optResult.step_id = "filter" /\ optResult.type = "create_entry"
          /\ user_input.filter_subjects = <<>>) => options.filter_mode = "None"

C9_Witness ==
    /\ optResult.step_id = "filter"
    /\ optResult.type = "create_entry"
    /\ user_input.filter_mode = "Blacklist"
    /\ user_input.filter_subjects = <<>>
    /\ options.filter_mode = "None"

====
